---- MODULE Spec2Model ----
(***************************************************************************)
(* A model of src/tools/openrouter_config.py: the module's initialization  *)
(* (logging setup, environment loading, api key validation) and the two    *)
(* functions call_openrouter_api and get_chat_completion, the latter under *)
(* its backoff.on_exception(backoff.expo, Exception, max_tries=5,          *)
(* max_time=300) decorator.                                                *)
(*                                                                         *)
(* Python values are tagged records (PyNone, PyStr, PyNum, PyList,         *)
(* PyDict); the result of running a piece of code is Return(value) or      *)
(* Raise(exception name).  The transport (requests.post and the server     *)
(* behind it) is the environment: for each call it is a script, a number   *)
(* of requests that fail with a network exception followed by a fixed      *)
(* behaviour for every later request.                                      *)
(***************************************************************************)
EXTENDS Naturals, Sequences, FiniteSets

VARIABLES
    initState,      \* where module initialization stands / how it ended
    environ,        \* os.environ, restricted to the two variables read
    envFile,        \* the .env file at project_root (file system)
    api_key,        \* module global api_key (line 86)
    default_model,  \* module global default_model (line 87)
    pc,             \* where the current get_chat_completion call stands
    args,           \* arguments of the current call
    transport,      \* the transport's script for the current call
    tries,          \* backoff wrapper: tries
    elapsed,        \* backoff wrapper: elapsed, read at the top of the loop
    now,            \* time since the wrapper read its start time
    request,        \* the last request handed to requests.post
    posts,          \* requests.post invocations during the current call
    apiCalls,       \* call_openrouter_api invocations during the current call
    apiResult,      \* what the last call_openrouter_api invocation did
    bodyResult,     \* what the last run of get_chat_completion's body did
    outcome,        \* what the decorated get_chat_completion call did
    callLog         \* log records emitted during the current call

vars == <<initState, environ, envFile, api_key, default_model, pc, args,
          transport, tries, elapsed, now, request, posts, apiCalls,
          apiResult, bodyResult, outcome, callLog>>

(***************************************************************************)
(* Bounds of the model.                                                    *)
(***************************************************************************)
\* the transport scripts fail at most this many requests before their
\* fixed behaviour starts
MaxFails == 5
\* content strings are up to this much longer than the log preview
ExtraLen == 2

(***************************************************************************)
(* Program constants.                                                      *)
(***************************************************************************)
max_tries == 5
max_time == 300
PreviewLen == 500
StatusOK == 200
DefaultTemperature == 7     \* temperature=0.7, in tenths

DefaultModelName == "deepseek/deepseek-chat"
Url == "https://openrouter.ai/api/v1/chat/completions"

(***************************************************************************)
(* Python values and results.                                              *)
(***************************************************************************)
PyNone == [t |-> "None"]
PyStr(s) == [t |-> "str", s |-> s]
PyNum(n) == [t |-> "num", n |-> n]
PyList(items) == [t |-> "list", items |-> items]
PyDict(fields) == [t |-> "dict", fields |-> fields]

Return(v) == [kind |-> "return", value |-> v]
Raise(e) == [kind |-> "raise", exc |-> e]

\* bool(v) for the values a model name or an api key can be
Truthy(v) == v.t = "str" /\ Len(v.s) > 0

\* len(v)
PyLen(v) ==
    CASE v.t = "str" -> Return(Len(v.s))
      [] v.t = "list" -> Return(Len(v.items))
      [] v.t = "dict" -> Return(Cardinality(DOMAIN v.fields))
      [] OTHER -> Raise("TypeError")

\* v[k], k a PyStr or a PyNum
Subscript(v, k) ==
    CASE v.t = "dict" ->
            IF k.t = "str" /\ k.s \in DOMAIN v.fields
            THEN Return(v.fields[k.s]) ELSE Raise("KeyError")
      [] v.t = "list" ->
            IF k.t # "num" THEN Raise("TypeError")
            ELSE IF k.n < Len(v.items) THEN Return(v.items[k.n + 1])
            ELSE Raise("IndexError")
      [] v.t = "str" ->
            IF k.t # "num" THEN Raise("TypeError")
            ELSE IF k.n < Len(v.s) THEN Return(PyStr(SubSeq(v.s, k.n + 1, k.n + 1)))
            ELSE Raise("IndexError")
      [] OTHER -> Raise("TypeError")

\* v[:n]
SliceTo(v, n) ==
    CASE v.t = "str" ->
            Return(PyStr(SubSeq(v.s, 1, IF Len(v.s) < n THEN Len(v.s) ELSE n)))
      [] v.t = "list" ->
            Return(PyList(SubSeq(v.items, 1,
                                 IF Len(v.items) < n THEN Len(v.items) ELSE n)))
      [] OTHER -> Raise("TypeError")

\* f"{v}" for the values that reach the formatting of the preview
Format(v) ==
    CASE v.t = "str" -> v.s
      [] v.t = "list" /\ Len(v.items) = 0 -> "[]"
      [] v.t = "dict" /\ DOMAIN v.fields = {} -> "{}"
      [] OTHER -> "<repr>"

RECURSIVE Repeat(_, _)
\* the string c * n
Repeat(c, n) ==
    IF n = 0 THEN ""
    ELSE LET h == Repeat(c, n \div 2)
         IN  IF n % 2 = 0 THEN h \o h ELSE h \o h \o c

(***************************************************************************)
(* Module initialization, lines 10-93.                                     *)
(***************************************************************************)
EnvNames == {"OPENROUTER_API_KEY", "OPENROUTER_MODEL"}

\* load_dotenv(env_path, override=True): every variable the file sets
\* replaces the one of the environment
LoadDotenv(env, file) ==
    [n \in EnvNames |-> IF file.vars[n] # PyNone THEN file.vars[n] ELSE env[n]]

\* os.getenv(name, default)
Getenv(env, name, default) == IF env[name] = PyNone THEN default ELSE env[name]

\* a mutant of ValidateConfig: "if api_key is None"
ValidateConfig_noneOnly(key) == IF key = PyNone THEN "ValueError" ELSE "ready"

\* lines 89-93: "if not api_key: raise ValueError(...)"
ValidateConfig(key) == IF ~Truthy(key) THEN "ValueError" ELSE "ready"

\* lines 10-50.  When logging.FileHandler raises, line 32 only prints, and
\* line 41 reads the unbound name file_handler: NameError ends the import.
SetupLogging ==
    /\ initState = "import"
    /\ \E fileHandlerCreated \in BOOLEAN :
          initState' = IF fileHandlerCreated THEN "logging_ready" ELSE "NameError"
    /\ UNCHANGED <<environ, envFile, api_key, default_model, pc, args,
                   transport, tries, elapsed, now, request, posts, apiCalls,
                   apiResult, bodyResult, outcome, callLog>>

\* lines 73-93
LoadConfig ==
    /\ initState = "logging_ready"
    /\ LET env == IF envFile.exists THEN LoadDotenv(environ, envFile) ELSE environ
           key == Getenv(env, "OPENROUTER_API_KEY", PyNone)
       IN  /\ environ' = env
           /\ api_key' = key
           /\ default_model' = Getenv(env, "OPENROUTER_MODEL", PyStr(DefaultModelName))
           /\ initState' = ValidateConfig(key)
    /\ UNCHANGED <<envFile, pc, args, transport, tries, elapsed, now, request,
                   posts, apiCalls, apiResult, bodyResult, outcome, callLog>>

(***************************************************************************)
(* call_openrouter_api, lines 95-124.                                      *)
(***************************************************************************)
\* a mutant of PayloadModel: the argument is ignored
PayloadModel_defaultOnly(model) == default_model

\* line 103: model or default_model
PayloadModel(model) == IF Truthy(model) THEN model ELSE default_model

\* lines 97-106 and the arguments of requests.post at line 113
BuildRequest(messages, model, temperature) ==
    [url |-> Url,
     headers |-> [Authorization |-> "Bearer " \o Format(api_key)],
     json |-> [model |-> PayloadModel(model),
               messages |-> messages,
               temperature |-> temperature]]

\* lines 109-111 (the preview of str(messages) is not modelled: the record
\* carries the messages themselves)
RequestLog(messages) ==
    <<[level |-> "info", event |-> "calling"],
      [level |-> "info", event |-> "request", messages |-> messages]>>

\* a mutant of CallOpenRouterApi: the exception is logged and swallowed
CallOpenRouterApi_swallow(t) ==
    IF t.kind = "exception" THEN Return(PyNone)
    ELSE IF t.status = StatusOK
         THEN IF t.body.ok THEN Return(t.body.json) ELSE Return(PyNone)
         ELSE Return(PyNone)

\* a mutant of CallOpenRouterApi: the status is not looked at
CallOpenRouterApi_anyStatus(t) ==
    IF t.kind = "exception" THEN Raise(t.exc)
    ELSE IF t.body.ok THEN Return(t.body.json) ELSE Raise("JSONDecodeError")

\* lines 113-124, given what requests.post did: t is an exception raised
\* by it, or a response with a status and a body that parses as JSON or
\* does not
CallOpenRouterApi(t) ==
    IF t.kind = "exception" THEN Raise(t.exc)
    ELSE IF t.status = StatusOK
         THEN IF t.body.ok THEN Return(t.body.json) ELSE Raise("JSONDecodeError")
         ELSE Return(PyNone)

\* the log records of lines 117, 120 and 123
CallOpenRouterApiLog(t) ==
    LET r == CallOpenRouterApi(t)
    IN  IF r.kind = "raise"
        THEN <<[level |-> "error", event |-> "api_exception", exc |-> r.exc]>>
        ELSE IF t.kind # "response" THEN <<>>
        ELSE IF t.status = StatusOK
             THEN <<[level |-> "info", event |-> "api_ok"]>>
             ELSE <<[level |-> "error", event |-> "api_failed", status |-> t.status]>>

(***************************************************************************)
(* get_chat_completion, lines 126-154.                                     *)
(***************************************************************************)
\* line 145: response["choices"][0]["message"]["content"]
ExtractContent(response) ==
    LET a == Subscript(response, PyStr("choices"))
    IN  IF a.kind = "raise" THEN a
        ELSE LET b == Subscript(a.value, PyNum(0))
             IN  IF b.kind = "raise" THEN b
                 ELSE LET c == Subscript(b.value, PyStr("message"))
                      IN  IF c.kind = "raise" THEN c
                          ELSE Subscript(c.value, PyStr("content"))

\* lines 147-148: the text of the debug record
ContentPreview(content) ==
    LET n == PyLen(content)
    IN  IF n.kind = "raise" THEN n
        ELSE IF n.value > PreviewLen
             THEN LET s == SliceTo(content, PreviewLen)
                  IN  IF s.kind = "raise" THEN s
                      ELSE Return(PyStr(Format(s.value) \o "..."))
             ELSE Return(PyStr(Format(content)))

\* a mutant of GetChatCompletionTry: the truncated text is returned
GetChatCompletionTry_truncates(api) ==
    IF api.kind = "raise" THEN api
    ELSE IF api.value = PyNone THEN Return(PyNone)
    ELSE LET c == ExtractContent(api.value)
         IN  IF c.kind = "raise" THEN c
             ELSE LET p == ContentPreview(c.value)
                  IN  IF p.kind = "raise" THEN p
                      ELSE IF c.value.t = "str"
                           THEN SliceTo(c.value, PreviewLen)
                           ELSE Return(c.value)

\* lines 135-150: the try block, given what call_openrouter_api did
GetChatCompletionTry(api) ==
    IF api.kind = "raise" THEN api
    ELSE IF api.value = PyNone THEN Return(PyNone)
    ELSE LET c == ExtractContent(api.value)
         IN  IF c.kind = "raise" THEN c
             ELSE LET p == ContentPreview(c.value)
                  IN  IF p.kind = "raise" THEN p ELSE Return(c.value)

\* a mutant of GetChatCompletionBody: no except clause
GetChatCompletionBody_noExcept(api) == GetChatCompletionTry(api)

\* a mutant of GetChatCompletionBody: the except clause catches only what
\* the extraction of the content raises
GetChatCompletionBody_reraise(api) ==
    LET r == GetChatCompletionTry(api)
    IN  IF r.kind = "raise" /\ api.kind = "return" THEN Return(PyNone) ELSE r

\* lines 134-154: the function body, every exception of the try block
\* caught at line 152 and None returned at line 154
GetChatCompletionBody(api) ==
    LET r == GetChatCompletionTry(api)
    IN  IF r.kind = "raise" THEN Return(PyNone) ELSE r

\* the log records of lines 142, 146, 147 and 153
GetChatCompletionLog(api) ==
    LET r == GetChatCompletionTry(api)
        c == IF api.kind = "return" /\ api.value # PyNone
             THEN ExtractContent(api.value) ELSE Raise("none")
        got == IF c.kind = "return"
               THEN <<[level |-> "info", event |-> "got_response"]>> ELSE <<>>
        dbg == IF c.kind = "return" /\ ContentPreview(c.value).kind = "return"
               THEN <<[level |-> "debug", event |-> "content",
                       text |-> ContentPreview(c.value).value.s]>>
               ELSE <<>>
    IN  IF api.kind = "return" /\ api.value = PyNone
        THEN <<[level |-> "error", event |-> "empty_response"]>>
        ELSE got \o dbg \o
             (IF r.kind = "raise"
              THEN <<[level |-> "error", event |-> "get_chat_completion_error",
                      exc |-> r.exc]>>
              ELSE <<>>)

(***************************************************************************)
(* backoff.on_exception(backoff.expo, Exception, max_tries=5,              *)
(* max_time=300), lines 126-131: the retry loop around the body.           *)
(***************************************************************************)
\* what the loop does with the body's result at try n, el after the start
BackoffDecision(body, n, el) ==
    IF body.kind = "return" THEN "return"
    ELSE IF n = max_tries \/ el >= max_time THEN "giveup"
    ELSE "retry"

\* backoff.expo: 1, 2, 4, 8, ...
Expo(n) == 2 ^ (n - 1)

Min(a, b) == IF a < b THEN a ELSE b

\* the sleeps the loop may take after try n: full jitter draws from
\* [0, Expo(n)] (its two ends are modelled), capped by max_time - elapsed
NextWaits(n, el) == {Min(j, max_time - el) : j \in {0, Expo(n)}}

(***************************************************************************)
(* The environment: the process environment and the .env file before the   *)
(* import, the arguments of a call, and what the transport does.           *)
(***************************************************************************)
Unbound == [t |-> "unbound"]
NoResult == [kind |-> "none"]
NoRequest == [none |-> TRUE]
NoArgs == [messages |-> <<>>, model |-> PyNone, temperature |-> DefaultTemperature]
NoTransport == [fails |-> 0, failure |-> NoResult, then |-> NoResult, latency |-> 0]

OsKeys == {PyNone, PyStr(""), PyStr("sk-os")}
OsModels == {PyNone, PyStr("os/model")}
NoFile == [exists |-> FALSE, vars |-> [n \in EnvNames |-> PyNone]]
EnvFiles ==
    {NoFile} \cup
    {[exists |-> TRUE,
      vars |-> [n \in EnvNames |-> IF n = "OPENROUTER_API_KEY" THEN k ELSE m]] :
        k \in {PyNone, PyStr(""), PyStr("sk-file")}, m \in {PyNone, PyStr("")}}

Messages == {<<"hi">>, <<"hi", "again">>}
Models == {PyNone, PyStr(""), PyStr("vendor/model")}
Temperatures == {0, DefaultTemperature}

Exc(e) == [kind |-> "exception", exc |-> e]
Resp(status, body) == [kind |-> "response", status |-> status, body |-> body]
Json(v) == [ok |-> TRUE, json |-> v]
NotJson == [ok |-> FALSE]

Dict1(k, v) == PyDict([x \in {k} |-> v])
EmptyDict == PyDict([x \in {} |-> PyNone])

\* a well-formed completion: {"choices": [{"message": {"content": c}}]}
ValidBody(c) ==
    Dict1("choices", PyList(<<Dict1("message", Dict1("content", c))>>))

StringContents ==
    {PyStr(""), PyStr("ok")} \cup
    {PyStr(Repeat("x", PreviewLen + i)) : i \in 0..ExtraLen}
OtherContents == {PyNone, PyNum(1), PyList(<<>>)}

\* JSON bodies without a choices[0].message.content
MalformedBodies ==
    {PyNone, EmptyDict, PyList(<<>>), PyStr("choices"), PyNum(0),
     Dict1("error", PyStr("bad request")),
     Dict1("choices", PyNone),
     Dict1("choices", PyList(<<>>)),
     Dict1("choices", Dict1("0", Dict1("message", Dict1("content", PyStr("ok"))))),
     Dict1("choices", PyList(<<EmptyDict>>)),
     Dict1("choices", PyList(<<Dict1("message", EmptyDict)>>)),
     Dict1("choices", PyList(<<Dict1("message", PyStr("content"))>>))}

TransportExceptions == {"ConnectionError", "Timeout"}
ErrorStatuses == {500, 404}
Responses200 ==
    {Resp(StatusOK, NotJson)} \cup
    {Resp(StatusOK, Json(ValidBody(c))) : c \in StringContents \cup OtherContents} \cup
    {Resp(StatusOK, Json(v)) : v \in MalformedBodies}
ErrorResponses ==
    {Resp(st, b) : st \in ErrorStatuses,
                   b \in {NotJson, Json(ValidBody(PyStr("ok")))}}
Latencies == {1, 100}

\* a script: the first `fails` requests raise `failure`, every later one
\* behaves as `then`; each request takes `latency`
Scripts ==
    {[fails |-> 0, failure |-> Exc(e), then |-> Exc(e), latency |-> l] :
        e \in TransportExceptions, l \in Latencies} \cup
    {[fails |-> n, failure |-> Exc("ConnectionError"), then |-> b, latency |-> l] :
        n \in 0..MaxFails, b \in Responses200 \cup ErrorResponses, l \in Latencies}

\* what the transport does with the n-th request of the call
BehaviourAt(script, n) == IF n <= script.fails THEN script.failure ELSE script.then

(***************************************************************************)
(* The state machine.                                                      *)
(***************************************************************************)
Init ==
    /\ initState = "import"
    /\ environ \in [EnvNames -> OsKeys \cup OsModels]
    /\ environ["OPENROUTER_API_KEY"] \in OsKeys
    /\ environ["OPENROUTER_MODEL"] \in OsModels
    /\ envFile \in EnvFiles
    /\ api_key = Unbound
    /\ default_model = Unbound
    /\ pc = "idle"
    /\ args = NoArgs
    /\ transport = NoTransport
    /\ tries = 0
    /\ elapsed = 0
    /\ now = 0
    /\ request = NoRequest
    /\ posts = 0
    /\ apiCalls = 0
    /\ apiResult = NoResult
    /\ bodyResult = NoResult
    /\ outcome = NoResult
    /\ callLog = <<>>

\* a caller calls get_chat_completion(messages, model, temperature): the
\* backoff wrapper starts (tries = 0, start = now).  The functions exist
\* only when the import reached line 95.
GetChatCompletion ==
    /\ initState = "ready"
    /\ pc = "idle"
    /\ \E m \in Messages, model \in Models, temp \in Temperatures, script \in Scripts :
          /\ args' = [messages |-> m, model |-> model, temperature |-> temp]
          /\ transport' = script
    /\ pc' = "retry_loop"
    /\ tries' = 0
    /\ elapsed' = 0
    /\ now' = 0
    /\ request' = NoRequest
    /\ posts' = 0
    /\ apiCalls' = 0
    /\ apiResult' = NoResult
    /\ bodyResult' = NoResult
    /\ outcome' = NoResult
    /\ callLog' = <<>>
    /\ UNCHANGED <<initState, environ, envFile, api_key, default_model>>

\* one turn of the wrapper's loop up to the request: tries += 1, elapsed
\* is read, the body calls call_openrouter_api, which builds the request,
\* logs it and hands it to requests.post (lines 97-113)
Attempt ==
    /\ pc = "retry_loop"
    /\ tries' = tries + 1
    /\ elapsed' = now
    /\ apiCalls' = apiCalls + 1
    /\ request' = BuildRequest(args.messages, args.model, args.temperature)
    /\ posts' = posts + 1
    /\ callLog' = callLog \o RequestLog(args.messages)
    /\ pc' = "inflight"
    /\ UNCHANGED <<initState, environ, envFile, api_key, default_model, args,
                   transport, now, apiResult, bodyResult, outcome>>

\* requests.post returns or raises: call_openrouter_api finishes (lines
\* 113-124), the body of get_chat_completion finishes (lines 141-154), and
\* the wrapper returns, gives up (re-raises) or sleeps and loops
TransportResponds ==
    /\ pc = "inflight"
    /\ LET t == BehaviourAt(transport, tries)
           api == CallOpenRouterApi(t)
           body == GetChatCompletionBody(api)
           decision == BackoffDecision(body, tries, elapsed)
       IN  /\ apiResult' = api
           /\ bodyResult' = body
           /\ callLog' = callLog \o CallOpenRouterApiLog(t) \o GetChatCompletionLog(api)
           /\ IF decision = "retry"
              THEN /\ \E wait \in NextWaits(tries, elapsed) :
                         now' = now + transport.latency + wait
                   /\ pc' = "retry_loop"
                   /\ outcome' = outcome
              ELSE /\ now' = now + transport.latency
                   /\ pc' = IF decision = "return" THEN "returned" ELSE "raised"
                   /\ outcome' = body
    /\ UNCHANGED <<initState, environ, envFile, api_key, default_model, args,
                   transport, tries, elapsed, request, posts, apiCalls>>

\* the call is over: its caller has the return value or the exception, and
\* nothing of the call is kept (the module holds no state across calls)
CallerResumes ==
    /\ pc \in {"returned", "raised"}
    /\ pc' = "idle"
    /\ args' = NoArgs
    /\ transport' = NoTransport
    /\ tries' = 0
    /\ elapsed' = 0
    /\ now' = 0
    /\ request' = NoRequest
    /\ posts' = 0
    /\ apiCalls' = 0
    /\ apiResult' = NoResult
    /\ bodyResult' = NoResult
    /\ outcome' = NoResult
    /\ callLog' = <<>>
    /\ UNCHANGED <<initState, environ, envFile, api_key, default_model>>

Next ==
    \/ SetupLogging
    \/ LoadConfig
    \/ GetChatCompletion
    \/ Attempt
    \/ TransportResponds
    \/ CallerResumes

Spec == Init /\ [][Next]_vars

(***************************************************************************)
(* The claims.                                                             *)
(***************************************************************************)
Finished == pc \in {"returned", "raised"}

\* the transport's first answer is a response of the given kind
FirstAnswers(script, b) == script.fails = 0 /\ script.then = b

HasLogRecord(level, event) ==
    \E i \in 1..Len(callLog) : callLog[i].level = level /\ callLog[i].event = event

\* an upper bound on the time the first `fails` failing tries and their
\* sleeps take
TimeOfFailures(script) == script.fails * (script.latency + Expo(max_tries))

\* C1: when the transport raises on every request, a finished call has
\* raised the exception to its caller, after exactly max_tries = 5 requests
\* or after the max_time = 300 ceiling was reached; it has not returned.
C1_AlwaysRaisingTransportExhaustsRetries ==
    (Finished /\ transport.then.kind = "exception")
        => /\ outcome.kind = "raise"
           /\ pc = "raised"
           /\ posts = max_tries \/ elapsed >= max_time

\* C2: when the transport raises on the first N < 5 requests and answers
\* request N+1 with status 200 and a valid body (within 300 time units), a
\* finished call has returned that body's content after exactly N+1
\* requests.
C2_SuccessAfterNFailures ==
    \A c \in StringContents :
        (/\ Finished
         /\ transport.fails < max_tries
         /\ TimeOfFailures(transport) < max_time
         /\ transport.then = Resp(StatusOK, Json(ValidBody(c))))
            => /\ outcome = Return(c)
               /\ posts = transport.fails + 1

\* C3: when the transport answers with a status other than 200, the call
\* returns None, raises nothing and makes exactly one request: no retry
\* ever starts.
C3_ErrorStatusReturnsNoneOnce ==
    (/\ transport.fails = 0
     /\ transport.then.kind = "response"
     /\ transport.then.status # StatusOK)
        => /\ posts <= 1
           /\ pc # "raised"
           /\ Finished => /\ outcome = Return(PyNone)
                          /\ posts = 1
                          /\ tries = 1

C3_Witness ==
    /\ pc = "returned"
    /\ FirstAnswers(transport, Resp(500, Json(ValidBody(PyStr("ok")))))
    /\ outcome = Return(PyNone)
    /\ posts = 1

\* C4: when the transport answers with status 200 and a body holding the
\* string choices[0].message.content, the call returns exactly that string;
\* only the text of the debug log record is cut to 500 characters.
C4_ReturnsContentUnmodified ==
    \A c \in StringContents :
        (Finished /\ FirstAnswers(transport, Resp(StatusOK, Json(ValidBody(c)))))
            => /\ outcome = Return(c)
               /\ \E i \in 1..Len(callLog) :
                     /\ callLog[i].event = "content"
                     /\ callLog[i].level = "debug"
                     /\ callLog[i].text =
                            IF Len(c.s) > PreviewLen
                            THEN SubSeq(c.s, 1, PreviewLen) \o "..."
                            ELSE c.s

C4_Witness ==
    /\ pc = "returned"
    /\ outcome.kind = "return"
    /\ outcome.value.t = "str"
    /\ Len(outcome.value.s) = PreviewLen + 1
    /\ FirstAnswers(transport, Resp(StatusOK, Json(ValidBody(outcome.value))))

\* C5: when the transport answers with status 200 and a JSON body without
\* choices[0].message.content, the call logs an error and returns None: it
\* raises nothing and makes exactly one request.
C5_MalformedBodyReturnsNoneOnce ==
    \A v \in MalformedBodies :
        (transport.fails = 0 /\ transport.then = Resp(StatusOK, Json(v)))
            => /\ posts <= 1
               /\ pc # "raised"
               /\ Finished => /\ outcome = Return(PyNone)
                              /\ posts = 1
                              /\ \E i \in 1..Len(callLog) :
                                    /\ callLog[i].level = "error"
                                    /\ callLog[i].event \in
                                         {"empty_response", "get_chat_completion_error"}

C5_Witness ==
    /\ pc = "returned"
    /\ FirstAnswers(transport, Resp(StatusOK, Json(Dict1("choices", PyList(<<>>)))))
    /\ outcome = Return(PyNone)
    /\ HasLogRecord("error", "get_chat_completion_error")

\* C6: once the environment has been read, a missing or empty
\* OPENROUTER_API_KEY ends the import with ValueError; no request is made
\* and no call runs unless the import succeeded with a non-empty api_key.
C6_MissingKeyFailsBeforeAnyRequest ==
    /\ (initState \in {"ready", "ValueError"}
          /\ environ["OPENROUTER_API_KEY"] \in {PyNone, PyStr("")})
        => initState = "ValueError"
    /\ (posts > 0 \/ request # NoRequest \/ pc # "idle")
        => /\ initState = "ready"
           /\ api_key.t = "str"
           /\ Len(api_key.s) > 0
           /\ api_key = environ["OPENROUTER_API_KEY"]

C6_Witness ==
    /\ initState = "ValueError"
    /\ environ["OPENROUTER_API_KEY"] = PyStr("")
    /\ posts = 0
    /\ pc = "idle"

\* C7 as claimed: the "model" of the request body is the model argument
\* whenever one is supplied (anything but None), and default_model when it
\* is omitted.
C7_SuppliedModelAlwaysOverrides ==
    request # NoRequest
        => request.json.model =
              IF args.model # PyNone THEN args.model ELSE default_model

\* C7 as amended: the "model" of the request body is the model argument
\* whenever a non-empty one is supplied, and default_model, verbatim, when
\* the argument is omitted (None) or is the empty string.
C7_NonEmptyModelOverrides ==
    request # NoRequest
        => /\ request.json.model =
                 IF args.model \notin {PyNone, PyStr("")}
                 THEN args.model ELSE default_model
           /\ request.json.messages = args.messages
           /\ request.json.temperature = args.temperature

C7_Witness ==
    /\ request # NoRequest
    /\ args.model = PyStr("")
    /\ default_model = PyStr("os/model")
    /\ request.json.model = PyStr("os/model")

\* C8: call_openrouter_api ends in one of three ways, decided by the
\* transport: status 200 returns the parsed body; any other status returns
\* None; an exception of the transport, or a 200 body that does not parse,
\* is logged and raised.  Each invocation makes one request.
C8_SendRequestOutcomes ==
    /\ posts = apiCalls
    /\ (pc \in {"retry_loop", "returned", "raised"} /\ tries >= 1)
        => LET t == BehaviourAt(transport, tries)
           IN  /\ (t.kind = "response" /\ t.status = StatusOK /\ t.body.ok)
                    => apiResult = Return(t.body.json)
               /\ (t.kind = "response" /\ t.status # StatusOK)
                    => apiResult = Return(PyNone)
               /\ (t.kind = "response" /\ t.status = StatusOK /\ ~t.body.ok)
                    => /\ apiResult.kind = "raise"
                       /\ HasLogRecord("error", "api_exception")
               /\ t.kind = "exception"
                    => /\ apiResult = Raise(t.exc)
                       /\ HasLogRecord("error", "api_exception")

C8_Witness ==
    /\ Finished
    /\ FirstAnswers(transport, Resp(StatusOK, NotJson))
    /\ apiResult = Raise("JSONDecodeError")
    /\ posts = 1

\* C9: a call follows ATTEMPT -> {SUCCESS, SENTINEL_FAILURE, EXCEPTION ->
\* (ATTEMPT | EXHAUSTED)}: between 1 and 5 requests; an attempt that ended
\* in an exception is followed by another attempt or, with the budget
\* used up, by the exception raised to the caller; a call that returned
\* has returned the content (SUCCESS) or None after an answer without an
\* exception (SENTINEL_FAILURE).
C9_PerCallStateMachine ==
    /\ pc \in {"inflight", "returned", "raised"} => posts \in 1..max_tries
    /\ (pc = "retry_loop" /\ tries >= 1) => apiResult.kind = "raise"
    /\ apiResult.kind = "raise" => pc \in {"retry_loop", "inflight", "raised"}
    /\ pc = "raised" => /\ apiResult.kind = "raise"
                        /\ tries = max_tries \/ elapsed >= max_time
    /\ pc = "returned" => /\ apiResult.kind = "return"
                          /\ outcome.kind = "return"

====
